---------------------------- MODULE Spec2Model ----------------------------
(***************************************************************************)
(* A model of the Interac e-Transfer email parser (src/src/Parser.js).     *)
(*                                                                         *)
(* A JavaScript string is a sequence of characters; a character is a       *)
(* one-element TLA+ string (the two accented letters are named "eacute"    *)
(* and "Eacute").  JavaScript indices are 0-based: index i of a string s   *)
(* is s[i + 1] here.                                                       *)
(*                                                                         *)
(* A value that may be null, undefined or NaN is a record, so that any two *)
(* of them compare: Null, Undefined, NaN, a string s as Str(s), a language *)
(* tag (a property name of Tokens) as Key(l), a finite number as the       *)
(* record [neg, m, e], standing for (-1)^neg * m * 10^e with m not         *)
(* divisible by 10 (m = 0 has e = 0), and an infinity as Infinity(neg).    *)
(* Threw is the outcome of a call that raised a TypeError.                 *)
(***************************************************************************)
EXTENDS Integers, Sequences, FiniteSets, TLC

Null      == [null |-> TRUE]
Undefined == [undefined |-> TRUE]
NaN       == [nan |-> TRUE]
Threw     == [threw |-> "TypeError"]
Str(s)    == [str |-> s]
Key(l)    == [key |-> l]

---------------------------------------------------------------------------
(* Characters *)

UpperLetters ==
    << "A","B","C","D","E","F","G","H","I","J","K","L","M",
       "N","O","P","Q","R","S","T","U","V","W","X","Y","Z","Eacute" >>

LowerLetters ==
    << "a","b","c","d","e","f","g","h","i","j","k","l","m",
       "n","o","p","q","r","s","t","u","v","w","x","y","z","eacute" >>

Digits == << "0","1","2","3","4","5","6","7","8","9" >>

IsDigit(c) == \E i \in 1..Len(Digits) : Digits[i] = c

DigitVal(c) == (CHOOSE i \in 1..Len(Digits) : Digits[i] = c) - 1

\* String.prototype.trim strips these (the ones a plain-text body can hold).
IsWhite(c) == c \in {" ", "\t", "\r", "\n"}

CharToLower(c) ==
    IF \E i \in 1..Len(UpperLetters) : UpperLetters[i] = c
    THEN LowerLetters[CHOOSE i \in 1..Len(UpperLetters) : UpperLetters[i] = c]
    ELSE c

CharToUpper(c) ==
    IF \E i \in 1..Len(LowerLetters) : LowerLetters[i] = c
    THEN UpperLetters[CHOOSE i \in 1..Len(LowerLetters) : LowerLetters[i] = c]
    ELSE c

---------------------------------------------------------------------------
(* The String methods the parser calls *)

toLowerCase(s) == [i \in 1..Len(s) |-> CharToLower(s[i])]

\* s.startsWith(t)
startsWith(s, t) == Len(t) <= Len(s) /\ SubSeq(s, 1, Len(t)) = t

\* s.indexOf(t, from): the 0-based index of the first occurrence of t at or
\* after from (a negative from counts as 0), or -1.
indexOfFrom(s, t, from) ==
    LET lo   == IF from < 0 THEN 0 ELSE from
        hits == {i \in lo..(Len(s) - Len(t)) : SubSeq(s, i + 1, i + Len(t)) = t}
    IN  IF hits = {} THEN -1
        ELSE CHOOSE i \in hits : \A j \in hits : i <= j

indexOf(s, t) == indexOfFrom(s, t, 0)

\* s.substring(a, b): negative arguments count as 0, arguments beyond the
\* length as the length, and the two are swapped when a > b.
substring(s, a, b) ==
    LET clamp(x) == IF x < 0 THEN 0 ELSE IF x > Len(s) THEN Len(s) ELSE x
        lo == IF clamp(a) <= clamp(b) THEN clamp(a) ELSE clamp(b)
        hi == IF clamp(a) <= clamp(b) THEN clamp(b) ELSE clamp(a)
    IN  SubSeq(s, lo + 1, hi)

\* s.trim()
trim(s) ==
    LET keep == {i \in 1..Len(s) : ~IsWhite(s[i])}
    IN  IF keep = {} THEN << >>
        ELSE SubSeq(s, CHOOSE i \in keep : \A j \in keep : i <= j,
                       CHOOSE i \in keep : \A j \in keep : j <= i)

\* s.replace(/,/g, r)
RECURSIVE replaceCommas(_, _)
replaceCommas(s, r) ==
    IF s = << >> THEN << >>
    ELSE (IF Head(s) = "," THEN r ELSE << Head(s) >>) \o replaceCommas(Tail(s), r)

\* s.search(/\d/)
searchDigit(s) ==
    LET hits == {i \in 0..(Len(s) - 1) : IsDigit(s[i + 1])}
    IN  IF hits = {} THEN -1
        ELSE CHOOSE i \in hits : \A j \in hits : i <= j

\* s.split('\n'): always at least one piece.
RECURSIVE split(_)
split(s) ==
    LET nl == indexOf(s, << "\n" >>)
    IN  IF nl = -1 THEN << s >>
        ELSE << SubSeq(s, 1, nl) >> \o split(SubSeq(s, nl + 2, Len(s)))

\* lines.join('\n')
RECURSIVE join(_)
join(lines) ==
    IF lines = << >> THEN << >>
    ELSE IF Len(lines) = 1 THEN lines[1]
    ELSE lines[1] \o << "\n" >> \o join(Tail(lines))

SelectNonEmpty(lines) == SelectSeq(lines, LAMBDA l : Len(l) > 0)

---------------------------------------------------------------------------
(* Number.parseFloat *)

\* The length of the longest prefix of s made of digits.
RECURSIVE DigitRun(_)
DigitRun(s) ==
    IF s # << >> /\ IsDigit(Head(s)) THEN 1 + DigitRun(Tail(s)) ELSE 0

\* The value of a digit string, most significant digit first.
RECURSIVE DigitsValue(_)
DigitsValue(s) ==
    IF s = << >> THEN 0
    ELSE 10 * DigitsValue(SubSeq(s, 1, Len(s) - 1)) + DigitVal(s[Len(s)])

RECURSIVE Normalize(_, _, _)
Normalize(neg, m, e) ==
    IF m = 0 THEN [neg |-> neg, m |-> 0, e |-> 0]
    ELSE IF m % 10 = 0 THEN Normalize(neg, m \div 10, e + 1)
    ELSE [neg |-> neg, m |-> m, e |-> e]

Infinity(neg) == [infinity |-> TRUE, neg |-> neg]

InfinityLiteral == << "I","n","f","i","n","i","t","y" >>

\* The value of the digits that u starts with; 0 when it starts with none.
DigitsPrefixValue(u) == DigitsValue(SubSeq(u, 1, DigitRun(u)))

\* The exponent part that rest starts with: e or E, a sign or none, and at
\* least one digit; 0 when it starts with none.
Exponent(rest) ==
    IF rest # << >> /\ Head(rest) \in {"e", "E"}
    THEN IF Len(rest) >= 2 /\ rest[2] = "-" THEN 0 - DigitsPrefixValue(SubSeq(rest, 3, Len(rest)))
         ELSE IF Len(rest) >= 2 /\ rest[2] = "+" THEN DigitsPrefixValue(SubSeq(rest, 3, Len(rest)))
         ELSE DigitsPrefixValue(Tail(rest))
    ELSE 0

\* The number with integer digits int and fraction digits frac, followed by
\* rest; NaN when there is no digit at all.
ParseExponent(neg, int, frac, rest) ==
    IF Len(int) + Len(frac) = 0 THEN NaN
    ELSE Normalize(neg, DigitsValue(int \o frac), Exponent(rest) - Len(frac))

\* The part of rest from position from on (1-based).
From(rest, from) == SubSeq(rest, from, Len(rest))

ParseFraction(neg, int, rest) ==
    IF rest # << >> /\ Head(rest) = "."
    THEN ParseExponent(neg, int, SubSeq(rest, 2, 1 + DigitRun(Tail(rest))),
                       From(rest, 2 + DigitRun(Tail(rest))))
    ELSE ParseExponent(neg, int, << >>, rest)

ParseUnsigned(neg, t) ==
    IF startsWith(t, InfinityLiteral) THEN Infinity(neg)
    ELSE ParseFraction(neg, SubSeq(t, 1, DigitRun(t)), From(t, DigitRun(t) + 1))

ParseSigned(t) ==
    ParseUnsigned(t # << >> /\ Head(t) = "-",
                  IF t # << >> /\ Head(t) \in {"+", "-"} THEN Tail(t) ELSE t)

\* s without the white space it starts with.
RECURSIVE SkipWhite(_)
SkipWhite(s) == IF s # << >> /\ IsWhite(Head(s)) THEN SkipWhite(Tail(s)) ELSE s

\* Number.parseFloat(s): the longest prefix of s, leading white space
\* skipped, that is a decimal literal (sign, digits, fraction, exponent);
\* NaN when there is none.
parseFloat(s) == ParseSigned(SkipWhite(s))

\* isNaN(x), the global one: its argument is converted to a number first,
\* and null converts to 0.
isNaN(x) == x = NaN

\* typeof(x) === "number" && !Number.isNaN(x)
IsValidNumber(x) == x # Null /\ x # NaN

---------------------------------------------------------------------------
(* The token dictionary *)

Tokens_en ==
    [ body_greetings |->
        << "h","i" >>,
      message |->
        << "m","e","s","s","a","g","e" >>,
      reference |->
        << "r","e","f","e","r","e","n","c","e" >>,
      subject_start |->
        << "i","n","t","e","r","a","c"," ","e","-","t","r","a","n","s","f","e","r" >>,
      automatic_deposit |->
        << "a","u","t","o","m","a","t","i","c","a","l","l","y"," ","d","e","p","o","s","i","t","e","d" >>,
      sent |->
        << "h","a","s"," ","s","e","n","t" >> ]

Tokens_fr ==
    [ body_greetings |->
        << "b","o","n","j","o","u","r" >>,
      message |->
        << "m","e","s","s","a","g","e" >>,
      reference |->
        << "r","eacute","f","eacute","r","e","n","c","e" >>,
      subject_start |->
        << "v","i","r","e","m","e","n","t"," ","i","n","t","e","r","a","c" >>,
      automatic_deposit |->
        << "a","u","t","o","m","a","t","i","q","u","e","m","e","n","t" >>,
      sent |->
        << "v","o","u","s" >> ]

Tokens == [en |-> Tokens_en, fr |-> Tokens_fr]

\* A faulty variant of Languages: French is visited before English.
LanguagesReversed == << "fr", "en" >>

\* The order in which "for (let language in Tokens)" visits the languages.
Languages == << "en", "fr" >>

---------------------------------------------------------------------------
(* Parser *)

version == "2.0"

\* The first element of Languages among those at the positions hits; Null
\* when there is none.
FirstLanguage(hits) ==
    IF hits = {} THEN Null
    ELSE Key(Languages[CHOOSE k \in hits : \A j \in hits : k <= j])

tokenExists(text, token) ==
    FirstLanguage({k \in 1..Len(Languages) :
                     indexOf(text, Tokens[Languages[k]][token]) # -1})

tokenStarts(text, token) ==
    FirstLanguage({k \in 1..Len(Languages) :
                     startsWith(text, Tokens[Languages[k]][token])})

\* The inner loop of tokenStartsLine: the first line, in line order, whose
\* lower-case form starts with langToken; Null when there is none.
FirstLineStarting(lines, langToken) ==
    LET hits == {i \in 1..Len(lines) : startsWith(toLowerCase(lines[i]), langToken)}
    IN  IF hits = {} THEN Null
        ELSE Str(lines[CHOOSE i \in hits : \A j \in hits : i <= j])

\* The outer loop of tokenStartsLine, from the k-th language on.
RECURSIVE tokenStartsLineFrom(_, _, _)
tokenStartsLineFrom(k, lines, token) ==
    IF k > Len(Languages) THEN Null
    ELSE LET found == FirstLineStarting(lines, Tokens[Languages[k]][token])
         IN  IF found # Null THEN found
             ELSE tokenStartsLineFrom(k + 1, lines, token)

tokenStartsLine(lines, token) == tokenStartsLineFrom(1, lines, token)

\* The number of leading characters of line that equal their own upper case.
RECURSIVE UpperRun(_)
UpperRun(line) ==
    IF line # << >> /\ Head(line) = CharToUpper(Head(line))
    THEN 1 + UpperRun(Tail(line))
    ELSE 0

\* Reading line.length of undefined raises a TypeError.
readUpperCase(line) ==
    IF line = Undefined THEN Threw
    ELSE Str(trim(substring(line.str, 0, UpperRun(line.str) - 1)))

containsLine(lines, token) ==
    LET hits == {i \in 1..Len(lines) : indexOf(lines[i], token) # -1}
    IN  IF hits = {} THEN Null
        ELSE Str(lines[CHOOSE i \in hits : \A j \in hits : i <= j])

\* readAfter(text, token) with the default options, {trim: true}.
readAfter(text, token) ==
    LET index == indexOf(text, token)
    IN  IF index = -1 THEN Null
        ELSE Str(trim(substring(text, index + Len(token), Len(text))))

\* Lines 119-127: the text between the '$' and the next space, commas
\* removed; the amount stays null when no space follows the '$'.
PrimaryAmount(line) ==
    LET amountStart == indexOf(line, << "$" >>)
        amountEnd   == indexOfFrom(line, << " " >>, amountStart)
    IN  IF amountStart # -1 /\ amountEnd # -1
        THEN parseFloat(replaceCommas(trim(substring(line, amountStart + 1, amountEnd)),
                                      << >>))
        ELSE Null

\* Lines 129-135: taken only when the amount so far is NaN; the text from the
\* first digit to the next space, commas turned into points.
FallbackAmount(line, amount) ==
    IF isNaN(amount)
    THEN LET digitStart == searchDigit(line)
             digitEnd   == indexOfFrom(line, << " " >>, digitStart)
         IN  IF digitStart # -1 /\ digitEnd # -1
             THEN parseFloat(replaceCommas(trim(substring(line, digitStart, digitEnd)),
                                           << "." >>))
             ELSE amount
    ELSE amount

\* Lines 140-143.
Currency(line) ==
    LET currencyStart == indexOf(line, << "(" >>)
        currencyEnd   == indexOfFrom(line, << ")" >>, currencyStart)
    IN  IF currencyStart # -1 /\ currencyEnd # -1 /\ (currencyEnd - currencyStart) >= 3
        THEN Str(substring(line, currencyStart + 1, currencyEnd))
        ELSE Null

\* Line 92: split into lines, trim each, drop the empty ones.
TrimEach(pieces) == [i \in 1..Len(pieces) |-> trim(pieces[i])]

NormalLines(bodyText) == SelectNonEmpty(TrimEach(split(bodyText)))

\* lines[1] of a JavaScript array: undefined when the array is shorter.
SecondLine(lines) == IF Len(lines) >= 2 THEN Str(lines[2]) ELSE Undefined

\* Lines 109 and 113: the text after the ':' of a line that was found.
ReadAfterColon(found) ==
    IF found # Null THEN readAfter(found.str, << ":" >>) ELSE Null

\* Lines 95-113: the facts found before the amount is looked for.
BodyBeforeAmount(lines, text, from_name) ==
    [ text            |-> text,
      language        |-> tokenStarts(toLowerCase(text), "body_greetings"),
      amount          |-> Null,
      currency        |-> Null,
      is_auto_deposit |-> tokenExists(toLowerCase(text), "automatic_deposit") # Null,
      message         |-> ReadAfterColon(tokenStartsLine(lines, "message")),
      reference       |-> ReadAfterColon(tokenStartsLine(lines, "reference")),
      is_valid_amount |-> FALSE,
      from_name       |-> from_name ]

\* Lines 119-143: the amount, its validity and the currency, read on line.
WithAmount(body, line, amount) ==
    [ body EXCEPT !.amount          = amount,
                  !.is_valid_amount = IsValidNumber(amount),
                  !.currency        = Currency(line) ]

\* Lines 115-146: the early return without a '$' line, and the rest.
BodyAfterAmount(body, line) ==
    IF line = Null THEN body
    ELSE WithAmount(body, line.str, FallbackAmount(line.str, PrimaryAmount(line.str)))

\* The body of parseBody once the lines are split; the call of readUpperCase
\* at line 105 raises before anything is returned.
BodyOfLines(lines, from_name) ==
    IF from_name = Threw THEN Threw
    ELSE BodyAfterAmount(BodyBeforeAmount(lines, join(lines), from_name),
                         containsLine(lines, << "$" >>))

ReadFromName(lines) == BodyOfLines(lines, readUpperCase(SecondLine(lines)))

parseBody(bodyText) == ReadFromName(NormalLines(bodyText))

parseSubject(text) ==
    LET lower    == toLowerCase(text)
        language == tokenStarts(lower, "subject_start")
    IN  [ text              |-> text,
          language          |-> language,
          is_email_transfer |-> language # Null,
          is_auto_deposit   |-> tokenExists(lower, "automatic_deposit") # Null ]

\* email[type] is undefined, or an address object whose value is a list of
\* {name, address} entries.
getRecipient(email, type) ==
    LET value == IF email[type] # Undefined /\ Len(email[type].value) > 0
                 THEN email[type].value[1] ELSE Null
    IN  [ name  |-> IF value # Null THEN value.name ELSE Null,
          email |-> IF value # Null THEN value.address ELSE Null ]

\* `${body.amount}` of an amount that is not a valid number.
AmountText(a) == IF a = Null THEN "null" ELSE "NaN"

ErrSubject     == "Subject does not start with 'INTERAC e-Transfer'."
ErrAmount(a)   == "Amount is not a valid number: " \o AmountText(a)
ErrLanguage    == "Subject and body language does not match."
ErrAutoDeposit == "Subject and body auto-deposit does not match."

\* A faulty variant of Validate: the checks stop at the first one that fails.
ValidateFirstOnly(subject, body) ==
    IF ~subject.is_email_transfer THEN << ErrSubject >>
    ELSE IF ~body.is_valid_amount THEN << ErrAmount(body.amount) >>
    ELSE IF subject.language # body.language THEN << ErrLanguage >>
    ELSE IF subject.is_auto_deposit # body.is_auto_deposit THEN << ErrAutoDeposit >>
    ELSE << >>

\* A faulty variant of Validate: the languages are not compared.
ValidateNoLanguageCheck(subject, body) ==
       (IF ~subject.is_email_transfer THEN << ErrSubject >> ELSE << >>)
    \o (IF ~body.is_valid_amount THEN << ErrAmount(body.amount) >> ELSE << >>)
    \o (IF subject.is_auto_deposit # body.is_auto_deposit
        THEN << ErrAutoDeposit >> ELSE << >>)

\* Lines 28-34: the four checks, each pushing its message when it fails.
Validate(subject, body) ==
       (IF ~subject.is_email_transfer THEN << ErrSubject >> ELSE << >>)
    \o (IF ~body.is_valid_amount THEN << ErrAmount(body.amount) >> ELSE << >>)
    \o (IF subject.language # body.language THEN << ErrLanguage >> ELSE << >>)
    \o (IF subject.is_auto_deposit # body.is_auto_deposit
        THEN << ErrAutoDeposit >> ELSE << >>)

\* x || y
OrElse(x, y) == IF x # Null THEN x ELSE y

\* A faulty variant of Assemble: an empty error list is returned as it is.
AssembleKeepEmptyErrors(to, from, replyTo, subject, body, errors) ==
    [ version         |-> version,
      toName          |-> to.name,
      toEmail         |-> to.email,
      fromName        |-> from.name,
      fromEmail       |-> from.email,
      replyToName     |-> replyTo.name,
      replyToEmail    |-> replyTo.email,
      language        |-> OrElse(body.language, subject.language),
      amount          |-> body.amount,
      currency        |-> body.currency,
      reference       |-> body.reference,
      isAutoDeposit   |-> (body.is_auto_deposit /\ subject.is_auto_deposit),
      userMessage     |-> body.message,
      isEmailTransfer |-> (subject.is_email_transfer /\ body.is_valid_amount),
      body            |-> body.text,
      subject         |-> subject.text,
      errors          |-> [list |-> errors] ]

\* A faulty variant of Assemble: the body alone decides isAutoDeposit.
AssembleBodyAutoDeposit(to, from, replyTo, subject, body, errors) ==
    [ version         |-> version,
      toName          |-> to.name,
      toEmail         |-> to.email,
      fromName        |-> from.name,
      fromEmail       |-> from.email,
      replyToName     |-> replyTo.name,
      replyToEmail    |-> replyTo.email,
      language        |-> OrElse(body.language, subject.language),
      amount          |-> body.amount,
      currency        |-> body.currency,
      reference       |-> body.reference,
      isAutoDeposit   |-> body.is_auto_deposit,
      userMessage     |-> body.message,
      isEmailTransfer |-> (subject.is_email_transfer /\ body.is_valid_amount),
      body            |-> body.text,
      subject         |-> subject.text,
      errors          |-> IF Len(errors) > 0 THEN [list |-> errors] ELSE Null ]

\* Lines 36-65.  The identifiers and the date are copied from the email
\* unread and are left out.  errors is the list, boxed, or Null.
Assemble(to, from, replyTo, subject, body, errors) ==
    [ version         |-> version,
      toName          |-> to.name,
      toEmail         |-> to.email,
      fromName        |-> from.name,
      fromEmail       |-> from.email,
      replyToName     |-> replyTo.name,
      replyToEmail    |-> replyTo.email,
      language        |-> OrElse(body.language, subject.language),
      amount          |-> body.amount,
      currency        |-> body.currency,
      reference       |-> body.reference,
      isAutoDeposit   |-> (body.is_auto_deposit /\ subject.is_auto_deposit),
      userMessage     |-> body.message,
      isEmailTransfer |-> (subject.is_email_transfer /\ body.is_valid_amount),
      body            |-> body.text,
      subject         |-> subject.text,
      errors          |-> IF Len(errors) > 0 THEN [list |-> errors] ELSE Null ]

\* Lines 28-65 of parse, once body and subject are parsed.
Combine(email, body, subject) ==
    IF body = Threw THEN Threw
    ELSE Assemble(getRecipient(email, "to"), getRecipient(email, "from"),
                  getRecipient(email, "replyTo"), subject, body,
                  Validate(subject, body))

\* parse(email): the record, or Threw when parseBody raised.
parse(email) == Combine(email, parseBody(email.text), parseSubject(email.subject))

---------------------------------------------------------------------------
(* The emails the parser is run on *)

\* The largest number of pieces of an amount line.
MaxPieces == 4

\* The largest number of characters inside the parentheses of an amount line.
MaxCurrencyLen == 3

\* The largest number of raw lines of a body made of catalogue lines.
MaxLines == 3

\* All the concatenations of at most n elements of pieces.
RECURSIVE Concatenations(_, _)
Concatenations(pieces, n) ==
    IF n = 0 THEN {<< >>}
    ELSE LET shorter == Concatenations(pieces, n - 1)
         IN  shorter \cup {s \o p : s \in shorter, p \in pieces}

\* All the sequences of at most n elements of S.
RECURSIVE SeqsUpTo(_, _)
SeqsUpTo(S, n) ==
    IF n = 0 THEN {<< >>}
    ELSE LET shorter == SeqsUpTo(S, n - 1)
         IN  shorter \cup {Append(s, x) : s \in shorter, x \in S}

Subject_en_auto == << "I","N","T","E","R","A","C"," ","e","-","T","r","a","n","s","f","e","r",":"," ","a","u","t","o","m","a","t","i","c","a","l","l","y"," ","d","e","p","o","s","i","t","e","d","." >>
Subject_en      == << "I","N","T","E","R","A","C"," ","e","-","T","r","a","n","s","f","e","r",":"," ","x" >>
Subject_fr_auto == << "V","i","r","e","m","e","n","t"," ","I","n","t","e","r","a","c"," ",":"," ","a","u","t","o","m","a","t","i","q","u","e","m","e","n","t" >>
Subject_fr      == << "V","i","r","e","m","e","n","t"," ","I","n","t","e","r","a","c" >>
Subject_re_auto == << "R","e",":"," ","a","u","t","o","m","a","t","i","c","a","l","l","y"," ","d","e","p","o","s","i","t","e","d" >>
Subject_empty   == << >>

Subjects ==
    { Subject_en_auto, Subject_en, Subject_fr_auto, Subject_fr, Subject_re_auto,
      Subject_empty }

Greeting_en   == << "H","i"," ","S","A","M","," >>
Greeting_fr   == << "B","o","n","j","o","u","r"," ","S","A","M","," >>
Greeting_none == << "D","e","a","r"," ","S","A","M","," >>

AbsentRecipients == [to |-> Undefined, from |-> Undefined, replyTo |-> Undefined]

Email(subject, text, recipients) ==
    [ subject |-> subject, text |-> text,
      to |-> recipients.to, from |-> recipients.from, replyTo |-> recipients.replyTo ]

\* Bodies whose second line is an amount line put together from pieces, with
\* or without a parenthesized currency after it.
AmountPieces == { << "$" >>, << "5" >>, << ",","2","5" >>, << " " >> }

CurrencyParts ==
    {<< >>} \cup {<< "(" >> \o [i \in 1..k |-> "C"] \o << ")" >> : k \in 0..MaxCurrencyLen}

AmountLines ==
    {a \o c : a \in Concatenations(AmountPieces, MaxPieces), c \in CurrencyParts}

AmountEmails ==
    {Email(Subject_en, Greeting_en \o << "\n" >> \o l, AbsentRecipients) : l \in AmountLines}

\* Bodies of up to MaxLines raw lines: a blank line, a padded greeting,
\* message lines with and without a ':', reference lines in both languages.
Line_blank      == << " ","\t" >>
Line_greeting   == << " "," ","H","i"," ","S","A","M",","," " >>
Line_message    == << "M","e","s","s","a","g","e",":"," ","m",":","1" >>
Line_message_nc == << "M","E","S","S","A","G","E" >>
Line_ref_en     == << "R","e","f","e","r","e","n","c","e"," ",":"," ","r" >>
Line_ref_fr     == << "R","eacute","f","eacute","r","e","n","c","e",":"," ","f" >>

CatalogueLines ==
    { Line_blank, Line_greeting, Line_message, Line_message_nc, Line_ref_en,
      Line_ref_fr }

LineEmails ==
    {Email(Subject_en, join(ls), AbsentRecipients) : ls \in SeqsUpTo(CatalogueLines, MaxLines)}

\* Every subject with every pairing of a greeting and a second line, and
\* recipients absent, empty or present.
Second_auto_en   == << "T","O","M"," ","h","a","s"," ","s","e","n","t"," ","$","5",".","2","5"," ","(","C","A","D",")"," ","a","u","t","o","m","a","t","i","c","a","l","l","y"," ","d","e","p","o","s","i","t","e","d" >>
Second_auto_fr   == << "T","O","M"," ","v","o","u","s"," ","5",",","2","5"," ","$"," ","(","C","A","D",")"," ","a","u","t","o","m","a","t","i","q","u","e","m","e","n","t" >>
Second_valid     == << "T","O","M"," ","h","a","s"," ","s","e","n","t"," ","$","5",".","2","5"," ","(","C","A","D",")","." >>
Second_invalid   == << "T","O","M"," ","h","a","s"," ","s","e","n","t"," ","m","o","n","e","y" >>
Second_only_auto == << "a","u","t","o","m","a","t","i","c","a","l","l","y"," ","d","e","p","o","s","i","t","e","d" >>

SecondLines ==
    { Second_auto_en, Second_auto_fr, Second_valid, Second_invalid, Second_only_auto }

Absent  == Undefined
NoEntry == [value |-> << >>]
Present ==
    [value |-> << [name |-> Str(<< "S","A","M" >>), address |-> Str(<< "s","@","x" >>)] >>]

\* The three recipients all absent, all with an empty list, all present, and
\* one of each.
Recipients ==
    { AbsentRecipients,
      [to |-> NoEntry, from |-> NoEntry, replyTo |-> NoEntry],
      [to |-> Present, from |-> Present, replyTo |-> Present],
      [to |-> Present, from |-> Absent,  replyTo |-> NoEntry] }

CrossEmails ==
    {Email(s, g \o << "\n" >> \o l, r) :
        s \in Subjects,
        g \in {Greeting_en, Greeting_fr, Greeting_none},
        l \in SecondLines,
        r \in Recipients}

Emails == AmountEmails \cup LineEmails \cup CrossEmails

---------------------------------------------------------------------------
(* The state machine: one call of a static method of Parser on an email *)

VARIABLES email, pc, result

vars == << email, pc, result >>

Init ==
    /\ email \in Emails
    /\ pc = "ready"
    /\ result = Undefined

Parse ==
    /\ pc = "ready"
    /\ result' = parse(email)
    /\ pc' = "parse"
    /\ UNCHANGED email

ParseBody ==
    /\ pc = "ready"
    /\ result' = parseBody(email.text)
    /\ pc' = "parseBody"
    /\ UNCHANGED email

ParseSubject ==
    /\ pc = "ready"
    /\ result' = parseSubject(email.subject)
    /\ pc' = "parseSubject"
    /\ UNCHANGED email

Next == Parse \/ ParseBody \/ ParseSubject

Spec == Init /\ [][Next]_vars

---------------------------------------------------------------------------
(* Properties *)

\* t occurs in s.
Contains(s, t) ==
    \E i \in 1..(Len(s) - Len(t) + 1) : SubSeq(s, i, i + Len(t) - 1) = t

\* parse has been called and has returned a record.
Returned == pc = "parse" /\ result # Threw

\* parseBody has been called and has returned its facts.
BodyReturned == pc = "parseBody" /\ result # Threw

\* The errors of the returned record, as a list (empty for null).
ErrorList == IF result.errors = Null THEN << >> ELSE result.errors.list

HasError(e) == \E i \in 1..Len(ErrorList) : ErrorList[i] = e

\* The least element of a non-empty set of integers.
Least(S) == CHOOSE i \in S : \A j \in S : i <= j

\* C1: parse never throws, whatever the body and the recipients: it always
\* returns a record.
C1_ParseNeverThrows == pc = "parse" => result # Threw

\* C2: the errors of a returned record are null, or a list of at least one
\* string, all different.
C2_ErrorsNullOrDistinct ==
    Returned =>
        \/ result.errors = Null
        \/ /\ Len(result.errors.list) >= 1
           /\ \A i, j \in 1..Len(result.errors.list) :
                i # j => result.errors.list[i] # result.errors.list[j]

\* A record with all four errors has been returned.
C2_Witness == Returned /\ Len(ErrorList) = 4

\* The subject starts, in any letter case, with the transfer phrase of a language.
SubjectHasPhrase(subject) ==
    \/ startsWith(toLowerCase(subject), Tokens_en.subject_start)
    \/ startsWith(toLowerCase(subject), Tokens_fr.subject_start)

\* The text holds a '$' with a digit right after it.
HasDollarAmount(text) ==
    \E i \in 1..(Len(text) - 1) : text[i] = "$" /\ IsDigit(text[i + 1])

\* C3: when the subject starts with a transfer phrase and the body holds a
\* '$' followed at once by a number, the returned record has isEmailTransfer
\* true and neither the amount error nor the subject error.
C3_PhraseAndAmountMakeATransfer ==
    Returned /\ SubjectHasPhrase(email.subject) /\ HasDollarAmount(email.text) =>
        /\ result.isEmailTransfer
        /\ ~HasError(ErrSubject)
        /\ ~HasError(ErrAmount(Null))
        /\ ~HasError(ErrAmount(NaN))

\* C4: the currency parseBody returns is null or has at least 3 characters.
C4_CurrencyHasThreeCharacters ==
    BodyReturned /\ result.currency # Null => Len(result.currency.str) >= 3

\* The first normalized line of text that holds a '$'; there must be one.
DollarLine(text) ==
    LET lines == NormalLines(text)
    IN  lines[Least({i \in 1..Len(lines) : Contains(lines[i], << "$" >>)})]

\* The number the second strategy reads on line: the text from the first
\* digit to the next space, commas turned into points; NaN when there is no
\* digit or no space after it.
SecondStrategy(line) ==
    LET digits == {i \in 1..Len(line) : IsDigit(line[i])}
        spaces == {i \in 1..Len(line) : line[i] = " " /\ i > Least(digits)}
    IN  IF digits = {} \/ spaces = {} THEN NaN
        ELSE parseFloat(replaceCommas(SubSeq(line, Least(digits), Least(spaces) - 1),
                                      << "." >>))

\* C5: whenever the first strategy gives no number on the '$' line (no
\* space after the '$' included) and the second strategy gives one, the
\* amount is the second strategy's and is valid.
C5_FallbackWheneverPrimaryFails ==
    BodyReturned /\ Contains(email.text, << "$" >>) =>
        LET line == DollarLine(email.text)
        IN  ~IsValidNumber(PrimaryAmount(line)) /\ IsValidNumber(SecondStrategy(line)) =>
                result.is_valid_amount /\ result.amount = SecondStrategy(line)

\* errs holds message[k] once when violated[k] and not at all otherwise,
\* nothing else, and the messages of two violated checks in the order of
\* the checks.
ViolatedInOrder(errs, violated, message) ==
    /\ Len(errs) = Cardinality({k \in 1..4 : violated[k]})
    /\ \A k \in 1..4 :
         Cardinality({i \in 1..Len(errs) : errs[i] = message[k]})
            = IF violated[k] THEN 1 ELSE 0
    /\ \A i, j \in 1..Len(errs) :
         i < j => \E k1, k2 \in 1..4 :
                    k1 < k2 /\ errs[i] = message[k1] /\ errs[j] = message[k2]

\* The four checks on the facts s of the subject and b of the body.
ChecksOn(errs, s, b) ==
    /\ ViolatedInOrder(errs,
            << ~s.is_email_transfer, ~b.is_valid_amount, s.language # b.language,
               s.is_auto_deposit # b.is_auto_deposit >>,
            << ErrSubject, ErrAmount(b.amount), ErrLanguage, ErrAutoDeposit >>)
    /\ (s.language = Null /\ b.language = Null =>
            \A i \in 1..Len(errs) : errs[i] # ErrLanguage)

\* C6: the errors of a returned record are the messages of the violated
\* checks, one each, in the order subject, amount, language, auto-deposit;
\* two undetected languages are no language mismatch.
C6_ErrorsAreTheViolatedChecksInOrder ==
    Returned => ChecksOn(ErrorList, parseSubject(email.subject), parseBody(email.text))

\* A record of three errors, with no language detected on either side and no
\* language error, has been returned.
C6_Witness ==
    /\ Returned
    /\ result.language = Null
    /\ ErrorList = << ErrSubject, ErrAmount(Null), ErrAutoDeposit >>

\* The text holds, in any letter case, the auto-deposit phrase of a language.
HasAutoDepositPhrase(text) ==
    \/ Contains(toLowerCase(text), Tokens_en.automatic_deposit)
    \/ Contains(toLowerCase(text), Tokens_fr.automatic_deposit)

\* C7: isAutoDeposit of a returned record is true exactly when the subject
\* and the body both hold an auto-deposit phrase; when one alone does, it is
\* false and the auto-deposit error is reported.
C7_AutoDepositNeedsSubjectAndBody ==
    Returned =>
        LET inSubject == HasAutoDepositPhrase(email.subject)
            inBody    == HasAutoDepositPhrase(email.text)
        IN  /\ result.isAutoDeposit = (inSubject /\ inBody)
            /\ (inSubject # inBody =>
                    ~result.isAutoDeposit /\ HasError(ErrAutoDeposit))

\* A record has been returned for a subject that claims the auto-deposit and
\* a body that does not.
C7_Witness ==
    /\ Returned
    /\ HasAutoDepositPhrase(email.subject)
    /\ ~HasAutoDepositPhrase(email.text)
    /\ ~result.isAutoDeposit
    /\ HasError(ErrAutoDeposit)

\* C8: when no line of the body holds a '$', parse returns a record with
\* amount and currency null, isEmailTransfer false and the amount error.
C8_NoDollarLineGivesInvalidAmount ==
    pc = "parse" /\ ~Contains(email.text, << "$" >>) =>
        /\ result # Threw
        /\ result.amount = Null
        /\ result.currency = Null
        /\ ~result.isEmailTransfer
        /\ HasError(ErrAmount(Null))

\* What the extraction of a marked line must give on lines: the text after
\* the first ':' of the earliest line that starts with the English marker,
\* or, when no line does, of the earliest line that starts with the French
\* one; Null when no line starts with either or the line has no ':'.
MarkedValue(lines, english, french) ==
    LET starts(i, marker) == startsWith(toLowerCase(lines[i]), marker)
        chosen == {i \in 1..Len(lines) :
                     \/ starts(i, english) /\ \A j \in 1..(i - 1) : ~starts(j, english)
                     \/ /\ starts(i, french)
                        /\ \A j \in 1..Len(lines) : ~starts(j, english)
                        /\ \A j \in 1..(i - 1) : ~starts(j, french)}
    IN  IF chosen = {} THEN Null
        ELSE LET line   == lines[CHOOSE i \in chosen : TRUE]
                 colons == {c \in 1..Len(line) : line[c] = ":"}
             IN  IF colons = {} THEN Null
                 ELSE Str(trim(SubSeq(line, Least(colons) + 1, Len(line))))

\* The extraction of the line marked token gives expected on lines, and
\* facts, when parseBody returned them, hold it in field.
ExtractionGives(lines, token, expected, facts, field) ==
    /\ ReadAfterColon(tokenStartsLine(lines, token)) = expected
    /\ (facts # Threw => facts[field] = expected)

\* C9: the message and the reference that parseBody extracts are read after
\* the first ':' of the line chosen by language first (English before
\* French) and line order second, and are null without such a line or
\* without a ':'.
C9_MarkedLineByLanguageThenOrder ==
    pc = "parseBody" =>
        /\ ExtractionGives(NormalLines(email.text), "message",
                MarkedValue(NormalLines(email.text), Tokens_en.message, Tokens_fr.message),
                result, "message")
        /\ ExtractionGives(NormalLines(email.text), "reference",
                MarkedValue(NormalLines(email.text), Tokens_en.reference,
                            Tokens_fr.reference),
                result, "reference")

\* parseBody has returned the English reference of a body whose French
\* reference line comes first.
C9_Witness ==
    /\ BodyReturned
    /\ NormalLines(email.text) = << Line_ref_fr, Line_ref_en >>
    /\ result.reference = Str(<< "r" >>)

\* errors is null exactly when r is a transfer and the facts s of the subject
\* and b of the body agree; the language of r is then the language of both.
ConsistentWith(r, s, b) ==
    /\ (r.errors = Null) <=>
            /\ r.isEmailTransfer
            /\ s.language = b.language
            /\ s.is_auto_deposit = b.is_auto_deposit
    /\ r.errors = Null =>
            /\ r.language # Null
            /\ r.language = s.language
            /\ r.language = b.language

\* C10: a returned record has errors null exactly when isEmailTransfer is
\* true, the subject and body languages are equal and their auto-deposit
\* claims agree; its language is then not null and is the language of both.
C10_NoErrorsIffConsistent ==
    Returned => ConsistentWith(result, parseSubject(email.subject), parseBody(email.text))

\* A French record without errors has been returned.
C10_Witness ==
    Returned /\ result.errors = Null /\ result.language = Key("fr")

====
